---- MODULE Spec2Model ----
(***************************************************************************)
(* Model of CryptoV1.py: class CryptoTrader.                               *)
(*                                                                         *)
(* A Python dict is a TLA+ function on the set of its keys, so that        *)
(* d["k"] on an absent key is a KeyError and d.get("k", v) is a default.   *)
(* A call either returns a value, Ret(v), or raises, Exc(str(e)).          *)
(* Addresses are sequences of characters, so that str.lower() is computed. *)
(* Decimal amounts are integers in hundredths; position_size_pct is an     *)
(* integer number of hundredths (50 is Decimal("0.5")).                    *)
(***************************************************************************)
EXTENDS Integers, Sequences, FiniteSets, TLC

VARIABLES
    config,         \* self.config, loaded once by __init__
    pc,             \* position of the caller / of the running method
    entry,          \* the method the caller invoked
    env,            \* what the three external services answer in this run
    pair_address,   \* analyze_and_trade: its argument ("" in a direct call)
    pair_data,      \* analyze_and_trade: the fetched data; also `data` below it
    k,              \* _security_analysis: index of the next check in `checks`
    invoked,        \* the checks invoked so far, in order
    verdicts,       \* what each invoked check returned or raised
    security_check, \* what _security_analysis returned or raised
    balance,        \* _execute_gmgn_order: balance, in hundredths
    order,          \* _execute_gmgn_order: the order payload that was posted
    calls,          \* the outbound requests made in this run, in order
    result,         \* what the invoked method returned or raised
    prev,           \* history: an earlier finished call, its inputs and result
    account,        \* the venue's available capital, in whole units
    threads         \* concurrent calls of _execute_gmgn_order on one trader

vars == <<config, pc, entry, env, pair_address, pair_data, k, invoked, verdicts,
          security_check, balance, order, calls, result, prev, account,
          threads>>

-----------------------------------------------------------------------------
(* Values *)

None == [None |-> TRUE]
NoCall == [pending |-> TRUE]
Ret(v) == [ret |-> v]
Exc(m) == [exc |-> m]
IsRet(o) == DOMAIN o = {"ret"}
IsExc(o) == DOMAIN o = {"exc"}
EmptyDict == [x \in {} |-> None]

NoneSubscript == "'NoneType' object is not subscriptable"
KeyError(key) == "'" \o key \o "'"

MaxBalance == 1

LowerChar(c) ==
    CASE c = "A" -> "a"
      [] c = "B" -> "b"
      [] c = "C" -> "c"
      [] c = "D" -> "d"
      [] OTHER -> c

Lower(s) == [i \in DOMAIN s |-> LowerChar(s[i])]

PairAddresses == {<<"a", "b">>, <<"A", "b">>}
CreatorAddresses == {<<"c", "d">>, <<"C", "d">>}
TokenAddress == <<"b", "b">>
QuoteAddress == <<"d", "d">>

-----------------------------------------------------------------------------
(* Configuration: config.yaml as loaded by _load_config *)

Configs ==
    [blacklists : [tokens : {{}, {<<"a", "b">>}, {<<"A", "b">>}},
                   developers : {{}, {<<"c", "d">>}}],
     rugcheck : [min_score : {0, 70}],
     trading : [position_size_pct : {0, 50, 100, 150}]]

-----------------------------------------------------------------------------
(* External services *)

Snapshots ==
    { [pairAddress |-> p, baseToken |-> [address |-> TokenAddress],
       quoteToken |-> [address |-> QuoteAddress], priceUsd |-> 1] :
        p \in PairAddresses }
    \cup
    { [pairAddress |-> p, creator |-> c, baseToken |-> [address |-> TokenAddress],
       quoteToken |-> [address |-> QuoteAddress], priceUsd |-> 1] :
        p \in PairAddresses, c \in CreatorAddresses }
    \cup
    { [pairAddress |-> p] : p \in PairAddresses }

Bodies == Snapshots \cup {EmptyDict, [pairs |-> None]}

DexResponses ==
    {[kind |-> "transport_error"], [kind |-> "non_json"]}
    \cup { [kind |-> "json", status |-> 200, body |-> b] : b \in Bodies }
    \cup { [kind |-> "json", status |-> 404, body |-> b] :
              b \in {[pairs |-> None], EmptyDict} }

AuditBodies ==
    { [auditStatus |-> "GOOD", auditScore |-> 90],
      [auditStatus |-> "GOOD", auditScore |-> 50],
      [auditStatus |-> "BAD", auditScore |-> 90],
      [auditScore |-> 90],
      [auditStatus |-> "GOOD"] }

AuditResponses ==
    {[kind |-> "transport_error"], [kind |-> "non_json"]}
    \cup { [kind |-> "json", body |-> b] : b \in AuditBodies }

\* The "available" field is a JSON number or a string Decimal() cannot read.
BalanceResponses ==
    { [kind |-> "transport_error"], [kind |-> "non_json"],
      [kind |-> "json", body |-> EmptyDict],
      [kind |-> "json", body |-> [available |-> [string |-> "n/a"]]] }
    \cup { [kind |-> "json", body |-> [available |-> [number |-> n]]] :
              n \in 0..MaxBalance }

Confirmation == [orderId |-> 1]

OrderResponses ==
    { [kind |-> "transport_error"],
      [kind |-> "http", status_code |-> 201, text |-> "created", json |-> Ret(Confirmation)],
      [kind |-> "http", status_code |-> 201, text |-> "", json |-> Exc("Expecting value")],
      [kind |-> "http", status_code |-> 500, text |-> "rejected", json |-> Exc("Expecting value")] }

Envs == [dex : DexResponses, audit : AuditResponses,
         balance : BalanceResponses, post : OrderResponses]

-----------------------------------------------------------------------------
(* Utility methods *)

\* _get_dexscreener_data: response.json(), or None on any exception.
\* The status code of the response is not looked at.
_get_dexscreener_data(resp) ==
    IF resp.kind = "json" THEN resp.body ELSE None

\* _get_gmgn_balance falling back to one unit of balance instead of zero.
get_gmgn_balance_default_one(resp) ==
    IF /\ resp.kind = "json"
       /\ "available" \in DOMAIN resp.body
       /\ "number" \in DOMAIN resp.body.available
    THEN resp.body.available.number * 100
    ELSE 100

\* _get_gmgn_balance: Decimal(response.json()["available"]) in hundredths,
\* or Decimal(0) on any exception.
_get_gmgn_balance(resp) ==
    IF /\ resp.kind = "json"
       /\ "available" \in DOMAIN resp.body
       /\ "number" \in DOMAIN resp.body.available
    THEN resp.body.available.number * 100
    ELSE 0

-----------------------------------------------------------------------------
(* Security check implementations *)

_check_blacklists(data) ==
    IF data = None THEN Exc(NoneSubscript)
    ELSE IF "pairAddress" \notin DOMAIN data THEN Exc(KeyError("pairAddress"))
    ELSE LET pair_addr == Lower(data.pairAddress)
             creator_addr == Lower(IF "creator" \in DOMAIN data
                                   THEN data.creator ELSE <<>>)
         IN  IF pair_addr \in config.blacklists.tokens
             THEN Ret([passed |-> FALSE, reason |-> "Token blacklisted"])
             ELSE IF creator_addr \in config.blacklists.developers
             THEN Ret([passed |-> FALSE, reason |-> "Developer blacklisted"])
             ELSE Ret([passed |-> TRUE])

AuditError == Ret([passed |-> FALSE, reason |-> "Audit verification error"])

\* The audit URL is built from data['baseToken']['address'] inside the try
\* block: without that key no request leaves the process.
rug_pull_requests(data) ==
    IF data # None /\ "baseToken" \in DOMAIN data THEN <<"rugcheck">> ELSE <<>>

_check_rug_pull_risk(data, resp) ==
    IF rug_pull_requests(data) = <<>> THEN AuditError
    ELSE IF resp.kind # "json" THEN AuditError
    ELSE LET audit == resp.body
             status == IF "auditStatus" \in DOMAIN audit
                       THEN audit.auditStatus ELSE "None"
             score == IF "auditScore" \in DOMAIN audit
                      THEN audit.auditScore ELSE 0
         IN  IF status # "GOOD"
             THEN Ret([passed |-> FALSE, reason |-> "Failed security audit"])
             ELSE IF score < config.rugcheck.min_score
             THEN IF "auditScore" \in DOMAIN audit
                  THEN Ret([passed |-> FALSE,
                            reason |-> "Low audit score: " \o ToString(audit.auditScore)])
                  ELSE AuditError
             ELSE Ret([passed |-> TRUE])

\* Bodies of `...`: each returns None.
_check_liquidity(data) == Ret(None)
_validate_volume(data) == Ret(None)
_analyze_holders(data) == Ret(None)

\* checks with the network-bound audit ahead of the blacklist lookup.
checksAuditFirst ==
    <<"_check_rug_pull_risk", "_check_blacklists", "_check_liquidity",
      "_validate_volume", "_analyze_holders">>


checks ==
    <<"_check_blacklists", "_check_rug_pull_risk", "_check_liquidity",
      "_validate_volume", "_analyze_holders">>

\* check(data) for the check named c.
Check(c, data, resp) ==
    CASE c = "_check_blacklists" -> _check_blacklists(data)
      [] c = "_check_rug_pull_risk" -> _check_rug_pull_risk(data, resp)
      [] c = "_check_liquidity" -> _check_liquidity(data)
      [] c = "_validate_volume" -> _validate_volume(data)
      [] c = "_analyze_holders" -> _analyze_holders(data)

CheckRequests(c, data) ==
    IF c = "_check_rug_pull_risk" THEN rug_pull_requests(data) ELSE <<>>

\* LoopStep taking a check that returns no verdict for a check that passed.
LoopStepNonePasses(i, outcome) ==
    IF IsExc(outcome) THEN [do |-> "leave", with |-> outcome]
    ELSE IF outcome.ret # None /\ ~outcome.ret.passed
    THEN [do |-> "leave", with |-> outcome]
    ELSE IF i = 5
    THEN [do |-> "leave",
          with |-> Ret([approved |-> TRUE, message |-> "Security checks passed"])]
    ELSE [do |-> "next", with |-> outcome]


\* LoopStep without the early return: a failing verdict does not end the loop.
LoopStepNoShortCircuit(i, outcome) ==
    IF IsExc(outcome) THEN [do |-> "leave", with |-> outcome]
    ELSE IF outcome.ret = None THEN [do |-> "leave", with |-> Exc(NoneSubscript)]
    ELSE IF i = 5
    THEN [do |-> "leave",
          with |-> Ret([approved |-> TRUE, message |-> "Security checks passed"])]
    ELSE [do |-> "next", with |-> outcome]

\* One iteration of the loop of _security_analysis on the outcome of check i:
\* what `if not result["passed"]: return result` does next.
LoopStep(i, outcome) ==
    IF IsExc(outcome) THEN [do |-> "leave", with |-> outcome]
    ELSE IF outcome.ret = None THEN [do |-> "leave", with |-> Exc(NoneSubscript)]
    ELSE IF ~outcome.ret.passed THEN [do |-> "leave", with |-> outcome]
    ELSE IF i = Len(checks)
    THEN [do |-> "leave",
          with |-> Ret([approved |-> TRUE, message |-> "Security checks passed"])]
    ELSE [do |-> "next", with |-> outcome]

-----------------------------------------------------------------------------
(* analyze_and_trade and _execute_gmgn_order *)

Error(m) == [status |-> "error", message |-> m]

\* FetchFailed as `if pair_data == {}`: None is let through.
FetchFailedEmptyOnly(data) == data = EmptyDict

\* `if not pair_data`: None and the empty dict are falsy.
FetchFailed(data) == data = None \/ data = EmptyDict

\* Approved as security_check.get("approved", True).
ApprovedByDefault(sc) ==
    IF "approved" \in DOMAIN sc THEN Ret(sc.approved) ELSE Ret(TRUE)

\* security_check["approved"]
Approved(sc) ==
    IF "approved" \in DOMAIN sc THEN Ret(sc.approved)
    ELSE Exc(KeyError("approved"))

\* WorkflowExcept as a handler that logs and re-raises.
WorkflowReraise(e) == Exc(e)

\* `except Exception as e` of analyze_and_trade.
WorkflowExcept(e) == Ret(Error(e))

\* `except Exception as e` of _execute_gmgn_order.
TradingExcept(e) == Ret(Error(e))

\* balance * Decimal(position_size_pct), in hundredths.
PositionSize(bal) == (bal * config.trading.position_size_pct) \div 100

OrderKeys == <<"pairAddress", "baseToken", "quoteToken", "priceUsd">>

\* The order payload, or the KeyError of the first key `data` lacks.
BuildOrder(data, position_size) ==
    LET missing == { i \in DOMAIN OrderKeys : OrderKeys[i] \notin DOMAIN data }
    IN  IF missing # {}
        THEN Exc(KeyError(OrderKeys[CHOOSE i \in missing : \A j \in missing : i <= j]))
        ELSE Ret([pair |-> data.pairAddress,
                  baseToken |-> data.baseToken.address,
                  quoteToken |-> data.quoteToken.address,
                  amount |-> position_size,
                  price |-> data.priceUsd,
                  side |-> "BUY"])

\* OrderRequests with one retry after anything but a created order.
OrderRequestsRetry(resp) ==
    IF resp.kind = "http" /\ resp.status_code = 201
    THEN <<"order">> ELSE <<"order", "order">>

\* The POSTs that self.session.post(...) sends for one order.
OrderRequests(resp) == <<"order">>

Created == 201

\* What _execute_gmgn_order returns for the venue's answer to the POST.
OrderResult(resp) ==
    IF resp.kind = "transport_error" THEN TradingExcept("Connection timed out")
    ELSE IF resp.status_code = Created
    THEN IF IsRet(resp.json)
         THEN Ret([status |-> "success", order |-> resp.json.ret])
         ELSE TradingExcept(resp.json.exc)
    ELSE Ret(Error(resp.text))

-----------------------------------------------------------------------------
(* The state machine *)

Unused == [kind |-> "transport_error"]

Idle ==
    /\ pc = "idle"
    /\ entry = "" /\ env = None /\ pair_address = "" /\ pair_data = None
    /\ k = 1 /\ invoked = <<>> /\ verdicts = <<>> /\ security_check = NoCall
    /\ balance = 0 /\ order = None /\ calls = <<>> /\ result = NoCall

Threads == {"t1", "t2"}

ThreadIdle == [pc |-> "idle", balance |-> 0, result |-> NoCall]

Init ==
    /\ config \in Configs
    /\ Idle
    /\ prev = NoCall
    /\ account = MaxBalance * 100
    /\ threads = [t \in Threads |-> ThreadIdle]

\* The caller invokes trader.analyze_and_trade(pair_address).
Call_analyze_and_trade ==
    /\ pc = "idle"
    /\ \E e \in Envs :
        /\ env' = e
        /\ entry' = "analyze_and_trade"
        /\ pair_address' = "0xYourTokenPairAddress"
        /\ pc' = "fetch"
    /\ UNCHANGED <<config, pair_data, k, invoked, verdicts, security_check,
                   balance, order, calls, result>>
    /\ UNCHANGED <<prev, account, threads>>

\* The caller invokes trader._security_analysis(data).
Call_security_analysis ==
    /\ pc = "idle"
    /\ \E e \in Envs, data \in Bodies \ {EmptyDict} :
        /\ e.dex = Unused /\ e.balance = Unused /\ e.post = Unused
        /\ env' = e
        /\ entry' = "_security_analysis"
        /\ pair_data' = data
        /\ pc' = "analysis"
    /\ UNCHANGED <<config, pair_address, k, invoked, verdicts, security_check,
                   balance, order, calls, result>>
    /\ UNCHANGED <<prev, account, threads>>

\* The caller invokes trader._execute_gmgn_order(data).
Call_execute_gmgn_order ==
    /\ pc = "idle"
    /\ \E e \in Envs, data \in Bodies \ {EmptyDict} :
        /\ e.dex = Unused /\ e.audit = Unused
        /\ env' = e
        /\ entry' = "_execute_gmgn_order"
        /\ pair_data' = data
        /\ pc' = "execute"
    /\ UNCHANGED <<config, pair_address, k, invoked, verdicts, security_check,
                   balance, order, calls, result>>
    /\ UNCHANGED <<prev, account, threads>>

\* FetchPairData retrying the fetch for as long as it fails.
FetchPairDataRetry ==
    /\ pc = "fetch"
    /\ calls' = <<"dexscreener">>
    /\ pair_data' = _get_dexscreener_data(env.dex)
    /\ result' = result
    /\ pc' = IF FetchFailed(pair_data') THEN "fetch" ELSE "analysis"
    /\ UNCHANGED <<config, entry, env, pair_address, k, invoked, verdicts,
                   security_check, balance, order>>
    /\ UNCHANGED <<prev, account, threads>>

\* analyze_and_trade, step 1: fetch the pair data and test it.
FetchPairData ==
    /\ pc = "fetch"
    /\ calls' = Append(calls, "dexscreener")
    /\ pair_data' = _get_dexscreener_data(env.dex)
    /\ IF FetchFailed(pair_data')
       THEN /\ result' = Ret(Error("Data fetch failed"))
            /\ pc' = "done"
       ELSE /\ result' = result
            /\ pc' = "analysis"
    /\ UNCHANGED <<config, entry, env, pair_address, k, invoked, verdicts,
                   security_check, balance, order>>
    /\ UNCHANGED <<prev, account, threads>>

\* _security_analysis: one iteration of `for check in checks`.
RunCheck ==
    /\ pc = "analysis"
    /\ LET c == checks[k]
           outcome == Check(c, pair_data, env.audit)
           step == LoopStep(k, outcome)
       IN  /\ invoked' = Append(invoked, c)
           /\ verdicts' = Append(verdicts, outcome)
           /\ calls' = calls \o CheckRequests(c, pair_data)
           /\ IF step.do = "next"
              THEN /\ k' = k + 1
                   /\ pc' = pc
                   /\ security_check' = security_check
              ELSE /\ k' = k
                   /\ pc' = "analysed"
                   /\ security_check' = step.with
    /\ UNCHANGED <<config, entry, env, pair_address, pair_data, balance, order,
                   result>>
    /\ UNCHANGED <<prev, account, threads>>

\* _security_analysis has returned or raised: to the caller when it was
\* invoked directly, else to step 2 of analyze_and_trade.
SecurityGate ==
    /\ pc = "analysed"
    /\ IF entry = "_security_analysis"
       THEN result' = security_check /\ pc' = "done"
       ELSE IF IsExc(security_check)
       THEN result' = WorkflowExcept(security_check.exc) /\ pc' = "done"
       ELSE LET approved == Approved(security_check.ret)
            IN  IF IsExc(approved)
                THEN result' = WorkflowExcept(approved.exc) /\ pc' = "done"
                ELSE IF ~approved.ret
                THEN result' = security_check /\ pc' = "done"
                ELSE result' = result /\ pc' = "execute"
    /\ UNCHANGED <<config, entry, env, pair_address, pair_data, k, invoked,
                   verdicts, security_check, balance, order, calls>>
    /\ UNCHANGED <<prev, account, threads>>

\* _execute_gmgn_order: balance = self._get_gmgn_balance()
GetBalance ==
    /\ pc = "execute"
    /\ calls' = Append(calls, "balance")
    /\ balance' = _get_gmgn_balance(env.balance)
    /\ pc' = "order"
    /\ UNCHANGED <<config, entry, env, pair_address, pair_data, k, invoked,
                   verdicts, security_check, order, result>>
    /\ UNCHANGED <<prev, account, threads>>

\* _execute_gmgn_order: size the position, build the order, post it and
\* return the result (which analyze_and_trade returns as it is).
SubmitOrder ==
    /\ pc = "order"
    /\ LET built == BuildOrder(pair_data, PositionSize(balance))
       IN  IF IsExc(built)
           THEN /\ result' = TradingExcept(built.exc)
                /\ UNCHANGED <<order, calls>>
           ELSE /\ order' = built.ret
                /\ calls' = calls \o OrderRequests(env.post)
                /\ result' = OrderResult(env.post)
    /\ pc' = "done"
    /\ UNCHANGED <<config, entry, env, pair_address, pair_data, k, invoked,
                   verdicts, security_check, balance>>
    /\ UNCHANGED <<prev, account, threads>>

\* Reset with the position in `checks` kept on the trader between calls.
ResetKeepsPosition ==
    /\ pc' = "idle"
    /\ entry' = "" /\ env' = None /\ pair_address' = "" /\ pair_data' = None
    /\ k' = k /\ invoked' = <<>> /\ verdicts' = <<>> /\ security_check' = NoCall
    /\ balance' = 0 /\ order' = None /\ calls' = <<>> /\ result' = NoCall

\* The locals of the finished call are gone: the next call starts afresh.
\* No method assigns to an attribute of self.
Reset ==
    /\ pc' = "idle"
    /\ entry' = "" /\ env' = None /\ pair_address' = "" /\ pair_data' = None
    /\ k' = 1 /\ invoked' = <<>> /\ verdicts' = <<>> /\ security_check' = NoCall
    /\ balance' = 0 /\ order' = None /\ calls' = <<>> /\ result' = NoCall

\* The invoked method has returned; the trader is ready for the next call.
Return ==
    /\ pc = "done"
    /\ Reset
    /\ UNCHANGED config
    /\ UNCHANGED <<prev, account, threads>>

Next ==
    \/ Call_analyze_and_trade
    \/ Call_security_analysis
    \/ Call_execute_gmgn_order
    \/ FetchPairData
    \/ RunCheck
    \/ SecurityGate
    \/ GetBalance
    \/ SubmitOrder
    \/ Return

Spec == Init /\ [][Next]_vars

-----------------------------------------------------------------------------
(* Properties *)

AnalyzeRun == entry = "analyze_and_trade"
Done == pc = "done"

Passing(o) == IsRet(o) /\ o.ret # None /\ o.ret.passed
Failing(o) == IsRet(o) /\ o.ret # None /\ ~o.ret.passed

Requested(what) == \E i \in DOMAIN calls : calls[i] = what
Count(what) == Cardinality({ i \in DOMAIN calls : calls[i] = what })

CheckOrder ==
    <<"_check_blacklists", "_check_rug_pull_risk", "_check_liquidity",
      "_validate_volume", "_analyze_holders">>

BlacklistFailed ==
    \E i \in DOMAIN invoked :
        invoked[i] = "_check_blacklists" /\ Failing(verdicts[i])

IsTradeResult(r) ==
    /\ "status" \in DOMAIN r
    /\ \/ r.status = "success" /\ "order" \in DOMAIN r
       \/ r.status = "rejected" /\ "reason" \in DOMAIN r
       \/ r.status = "error" /\ "message" \in DOMAIN r

\* C1: in a run of analyze_and_trade the balance query and the order POST
\* are requested only after all five checks returned a passing verdict.
C1_ApprovalGate ==
    (AnalyzeRun /\ (Requested("balance") \/ Requested("order")))
        => /\ Len(verdicts) = Len(CheckOrder)
           /\ \A i \in DOMAIN verdicts : Passing(verdicts[i])

\* A finished run of analyze_and_trade in which a check returned a failing
\* verdict, raised or returned no verdict, and no order was posted.
C1_Witness ==
    /\ AnalyzeRun /\ Done
    /\ \E i \in DOMAIN verdicts : ~Passing(verdicts[i])
    /\ ~Requested("order") /\ ~Requested("balance")

\* C2: when a check returned a failing verdict, analyze_and_trade returns a
\* Rejected result carrying that check's reason, and no Error result.
C2_RejectedOnFailingVerdict ==
    (AnalyzeRun /\ Done /\ verdicts # <<>> /\ Failing(verdicts[Len(verdicts)]))
        => /\ IsRet(result)
           /\ ~("status" \in DOMAIN result.ret /\ result.ret.status = "error")
           /\ "reason" \in DOMAIN result.ret
           /\ result.ret.reason = verdicts[Len(verdicts)].ret.reason

\* C3: when the blacklist check fails, _security_analysis returns exactly the
\* blacklist check's verdict, whatever the later checks would have returned.
C3_FirstFailureWins ==
    \A i \in DOMAIN invoked :
        (invoked[i] = "_check_blacklists" /\ Failing(verdicts[i])
            /\ pc \in {"analysed", "done"})
        => /\ security_check = verdicts[i]
           /\ security_check.ret.reason \in {"Token blacklisted", "Developer blacklisted"}

\* _security_analysis has returned on a blacklisted pair whose audit would
\* have failed too.
C3_Witness ==
    /\ pc = "analysed"
    /\ BlacklistFailed
    /\ env.audit.kind = "json" /\ env.audit.body = [auditStatus |-> "BAD", auditScore |-> 90]
    /\ security_check = Ret([passed |-> FALSE, reason |-> "Token blacklisted"])

\* C4: the checks are invoked in the fixed order, each only after all earlier
\* ones passed; after a blacklist failure the run has made no request other
\* than the market-data fetch.
C4_OrderedShortCircuit ==
    /\ Len(invoked) <= Len(CheckOrder)
    /\ \A i \in DOMAIN invoked : invoked[i] = CheckOrder[i]
    /\ \A i \in DOMAIN invoked : i < Len(invoked) => Passing(verdicts[i])
    /\ BlacklistFailed => \A j \in DOMAIN calls : calls[j] = "dexscreener"

\* A finished run of analyze_and_trade that the blacklist check stopped
\* with the market-data fetch as its only request.
C4_Witness ==
    /\ AnalyzeRun /\ Done /\ BlacklistFailed
    /\ invoked = <<"_check_blacklists">>
    /\ calls = <<"dexscreener">>

\* C5: a call of _execute_gmgn_order, and so a run of analyze_and_trade,
\* posts at most one order.
C5_SingleSubmission == Count("order") <= 1

\* _execute_gmgn_order has returned the venue's refusal after one POST.
C5_Witness ==
    /\ Done /\ entry = "_execute_gmgn_order"
    /\ env.post.kind = "http" /\ env.post.status_code = 500
    /\ Count("order") = 1
    /\ result = Ret(Error("rejected"))

\* C6: an order is posted only with a position size that is strictly
\* positive and at most the balance just read.
C6_SizingGate ==
    Requested("order") => order.amount > 0 /\ order.amount <= balance

\* C7: analyze_and_trade returns a TradeResult on every exit path; no failure
\* propagates out of it.
C7_UniformResult ==
    (AnalyzeRun /\ Done) => IsRet(result) /\ IsTradeResult(result.ret)

\* A finished run of analyze_and_trade in which _security_analysis raised.
C7_Witness ==
    /\ AnalyzeRun /\ Done
    /\ IsExc(security_check)
    /\ result = Ret(Error(security_check.exc))

\* C8: with a usable snapshot, nothing for a check to reject and a venue
\* answering 201, analyze_and_trade returns Success with the venue's payload.
C8_SuccessOnAllPass ==
    (/\ AnalyzeRun /\ Done
     /\ env.dex.kind = "json" /\ env.dex.status = 200
     /\ DOMAIN env.dex.body = {"pairAddress", "baseToken", "quoteToken", "priceUsd"}
     /\ config.blacklists.tokens = {} /\ config.blacklists.developers = {}
     /\ env.audit.kind = "json"
     /\ env.audit.body = [auditStatus |-> "GOOD", auditScore |-> 90]
     /\ env.balance.kind = "json" /\ env.balance.body = [available |-> [number |-> 1]]
     /\ config.trading.position_size_pct = 50
     /\ env.post.kind = "http" /\ env.post.status_code = 201 /\ IsRet(env.post.json))
        => result = Ret([status |-> "success", order |-> env.post.json.ret])

\* C9: when the market-data fetch raises a transport error, analyze_and_trade
\* returns an Error and runs no check and makes no further request.
C9_FetchTransportError ==
    (AnalyzeRun /\ env.dex.kind = "transport_error")
        => /\ invoked = <<>> /\ security_check = NoCall
           /\ \A j \in DOMAIN calls : calls[j] = "dexscreener"
           /\ pc \in {"fetch", "done"}
           /\ Done => /\ IsRet(result)
                      /\ IsTradeResult(result.ret)
                      /\ result.ret.status = "error"

\* analyze_and_trade has returned after a fetch that raised.
C9_Witness ==
    /\ AnalyzeRun /\ Done /\ env.dex.kind = "transport_error"
    /\ calls = <<"dexscreener">>
    /\ result = Ret(Error("Data fetch failed"))

ProviderError(resp) ==
    \/ resp.kind # "json"
    \/ "auditStatus" \notin DOMAIN resp.body
    \/ "auditScore" \notin DOMAIN resp.body

\* C10: on a network error, a non-JSON payload or a payload without
\* auditStatus or auditScore, _check_rug_pull_risk returns the failing
\* verdict "Audit verification error" and raises nothing.
C10_AuditFailClosed ==
    \A i \in DOMAIN invoked :
        (invoked[i] = "_check_rug_pull_risk" /\ ProviderError(env.audit))
            => verdicts[i] = AuditError

\* The stage of the orchestrator's state machine that a position belongs to:
\* Fetching 1, Analyzing 2, Sizing 3, Submitting 4, Done 5.
Stage(p) ==
    CASE p = "fetch" -> 1
      [] p \in {"analysis", "analysed"} -> 2
      [] p = "execute" -> 3
      [] p = "order" -> 4
      [] p = "done" -> 5
      [] OTHER -> 0

\* C11: a run moves forward only, one stage at a time; a stage is never
\* entered twice or retried (the loop of checks goes on only behind a passing
\* verdict), and a failed stage is followed by Done alone.
C11_ForwardOnly ==
    [][ pc \notin {"idle", "done"} =>
          /\ Stage(pc') >= Stage(pc)
          /\ pc' = pc => /\ pc = "analysis"
                         /\ k' = k + 1
                         /\ Passing(verdicts'[Len(verdicts')])
          /\ pc' # "done" => Stage(pc') <= Stage(pc) + 1
          /\ (pc = "fetch" /\ pair_data' \in {None, EmptyDict}) => pc' = "done"
          /\ (pc = "analysis" /\ ~Passing(verdicts'[Len(verdicts')]))
                => pc' = "analysed"
          /\ (pc = "analysed" /\ (IsExc(security_check)
                                  \/ "approved" \notin DOMAIN security_check.ret))
                => pc' = "done"
          /\ pc = "order" => pc' = "done" ]_vars

\* A finished run of analyze_and_trade that went through Fetching and three
\* checks of Analyzing and ended there.
C11_Witness ==
    /\ AnalyzeRun /\ Done
    /\ Len(invoked) = 3
    /\ calls = <<"dexscreener", "rugcheck">>

\* The pair or creator address of `data` equals an entry of the configured
\* blacklists when both are compared ignoring case.
BlacklistedIgnoringCase(data) ==
    \/ \E t \in config.blacklists.tokens : Lower(t) = Lower(data.pairAddress)
    \/ /\ "creator" \in DOMAIN data
       /\ \E d \in config.blacklists.developers : Lower(d) = Lower(data.creator)

\* C13: _check_blacklists returns a failing verdict whenever the pair or
\* creator address matches a blacklist entry ignoring case, for every casing
\* of the address and of the entry.
C13_CaseInsensitiveBlacklist ==
    \A i \in DOMAIN invoked :
        (/\ invoked[i] = "_check_blacklists"
         /\ pair_data # None /\ "pairAddress" \in DOMAIN pair_data
         /\ BlacklistedIgnoringCase(pair_data))
            => Failing(verdicts[i])

\* C14: on a non-success status or a body without the consumed fields the
\* fetch fails: analyze_and_trade ends with the fetch Error and no check runs
\* on that response.
C14_FetchFailsOnBadResponse ==
    (/\ AnalyzeRun /\ pc # "fetch"
     /\ env.dex.kind = "json"
     /\ \/ env.dex.status # 200
        \/ ~({"pairAddress", "baseToken", "quoteToken", "priceUsd"}
                \subseteq DOMAIN env.dex.body))
        => /\ invoked = <<>>
           /\ Done => result = Ret(Error("Data fetch failed"))

\* The venue answered the balance query with a readable amount.
BalanceReported(resp) ==
    /\ resp.kind = "json"
    /\ "available" \in DOMAIN resp.body
    /\ "number" \in DOMAIN resp.body.available

AuditGood(resp) ==
    /\ resp.kind = "json"
    /\ "auditStatus" \in DOMAIN resp.body /\ resp.body.auditStatus = "GOOD"
    /\ "auditScore" \in DOMAIN resp.body
    /\ resp.body.auditScore >= config.rugcheck.min_score

\* C16: _check_rug_pull_risk passes if and only if the response has status
\* GOOD and a score >= min_score; a status that is not GOOD gives "Failed
\* security audit", a GOOD status with a lower score a reason naming the score.
C16_AuditPassCondition ==
    \A i \in DOMAIN invoked :
        (invoked[i] = "_check_rug_pull_risk" /\ Requested("rugcheck")) =>
            /\ Passing(verdicts[i]) <=> AuditGood(env.audit)
            /\ (/\ env.audit.kind = "json"
                /\ "auditStatus" \in DOMAIN env.audit.body
                /\ env.audit.body.auditStatus # "GOOD")
                  => verdicts[i] = Ret([passed |-> FALSE,
                                        reason |-> "Failed security audit"])
            /\ (/\ env.audit.kind = "json"
                /\ DOMAIN env.audit.body = {"auditStatus", "auditScore"}
                /\ env.audit.body.auditStatus = "GOOD"
                /\ env.audit.body.auditScore < config.rugcheck.min_score)
                  => verdicts[i] =
                        Ret([passed |-> FALSE,
                             reason |-> "Low audit score: "
                                          \o ToString(env.audit.body.auditScore)])

\* C17: _execute_gmgn_order returns Success if and only if the venue answered
\* the POST with 201; any other status gives Error with the response text, a
\* transport failure Error with the failure description.
C17_VenueResponseMapping ==
    (entry = "_execute_gmgn_order" /\ Done /\ Requested("order")) =>
        /\ IsRet(result)
        /\ result.ret.status = "success"
              <=> (env.post.kind = "http" /\ env.post.status_code = 201)
        /\ (env.post.kind = "http" /\ env.post.status_code # 201)
              => result = Ret(Error(env.post.text))
        /\ env.post.kind = "transport_error"
              => result = Ret(Error("Connection timed out"))

\* C19: whatever the services answer, a run of analyze_and_trade requests
\* neither the balance nor an order and returns a result with status "error",
\* never a success, a verdict or an approval.
C19_AlwaysError ==
    AnalyzeRun =>
        /\ ~Requested("balance") /\ ~Requested("order")
        /\ pc \in {"fetch", "analysis", "analysed", "done"}
        /\ Done => /\ IsRet(result)
                   /\ DOMAIN result.ret = {"status", "message"}
                   /\ result.ret.status = "error"

\* A finished run of analyze_and_trade on a clean pair with a good audit and
\* a venue ready to accept the order: stopped by the liquidity stub.
C19_Witness ==
    /\ AnalyzeRun /\ Done
    /\ config.blacklists.tokens = {} /\ config.blacklists.developers = {}
    /\ AuditGood(env.audit)
    /\ env.post.kind = "http" /\ env.post.status_code = 201
    /\ invoked = <<"_check_blacklists", "_check_rug_pull_risk", "_check_liquidity">>
    /\ verdicts[3] = Ret(None)
    /\ result = Ret(Error(NoneSubscript))

\* A method that was invoked executes its next statement: each outbound call
\* returns a response or fails with a timeout or transport error.
Fairness ==
    /\ WF_vars(FetchPairData)
    /\ WF_vars(RunCheck)
    /\ WF_vars(SecurityGate)
    /\ WF_vars(GetBalance)
    /\ WF_vars(SubmitOrder)

FairSpec == Spec /\ Fairness

\* C18: every run of analyze_and_trade eventually reaches Done with a result.
C18_Termination ==
    AnalyzeRun ~> (AnalyzeRun /\ Done /\ result # NoCall)

\* A run of analyze_and_trade that has reached Done after its longest path:
\* the fetch, three checks and the return of _security_analysis.
C18_Witness ==
    /\ AnalyzeRun /\ Done /\ result # NoCall
    /\ k = 3 /\ Len(verdicts) = 3

-----------------------------------------------------------------------------
(* Concurrent calls of _execute_gmgn_order on one trader and one account *)

mainvars == <<config, pc, entry, env, pair_address, pair_data, k, invoked,
              verdicts, security_check, balance, order, calls, result, prev>>

ThreadData ==
    [pairAddress |-> <<"a", "b">>, baseToken |-> [address |-> TokenAddress],
     quoteToken |-> [address |-> QuoteAddress], priceUsd |-> 1]

\* What the venue may answer to the balance query: the capital it holds now.
VenueBalance ==
    { [kind |-> "transport_error"],
      [kind |-> "json", body |-> [available |-> [number |-> account]]] }

\* What the venue may answer to an order of `amount` hundredths.
VenueOrder(amount) ==
    { [kind |-> "transport_error"],
      IF amount > 0 /\ amount <= account * 100
      THEN [kind |-> "http", status_code |-> 201, text |-> "created",
            json |-> Ret(Confirmation)]
      ELSE [kind |-> "http", status_code |-> 500, text |-> "rejected",
            json |-> Exc("Expecting value")] }

\* Thread t enters _execute_gmgn_order and reads the balance (line 66).
\* Nothing in the method or in _get_gmgn_balance waits for another thread.
ThreadGetBalance(t) ==
    /\ threads[t].pc = "idle"
    /\ \E resp \in VenueBalance :
        threads' = [threads EXCEPT ![t] =
                       [pc |-> "order", balance |-> _get_gmgn_balance(resp),
                        result |-> NoCall]]
    /\ UNCHANGED <<mainvars, account>>

\* Thread t sizes the position from the balance it read, posts the order and
\* returns (lines 67-98); a created order spends its amount.
ThreadSubmitOrder(t) ==
    /\ threads[t].pc = "order"
    /\ LET built == BuildOrder(ThreadData, PositionSize(threads[t].balance))
       IN  \E resp \in VenueOrder(built.ret.amount) :
            /\ threads' = [threads EXCEPT ![t].pc = "done",
                                          ![t].result = OrderResult(resp)]
            /\ account' = IF resp.kind = "http" /\ resp.status_code = Created
                          THEN account - (built.ret.amount \div 100)
                          ELSE account
    /\ UNCHANGED mainvars

NextThreads ==
    \E t \in Threads : ThreadGetBalance(t) \/ ThreadSubmitOrder(t)

SpecThreads == Init /\ [][NextThreads]_vars

\* C12: of two concurrent runs on one account, at most one is between its
\* balance read and its order POST.
C12_Serialized ==
    \A t, u \in Threads :
        t # u => ~(threads[t].pc = "order" /\ threads[u].pc = "order")

-----------------------------------------------------------------------------
(* Repeated calls on one trader, with one earlier call remembered *)

ProbeSnapshot ==
    [pairAddress |-> <<"A", "b">>, creator |-> <<"c", "d">>,
     baseToken |-> [address |-> TokenAddress],
     quoteToken |-> [address |-> QuoteAddress], priceUsd |-> 1]

\* The calls that are remembered: two of each method.
Probes ==
    { [entry |-> "analyze_and_trade", pair_address |-> "0xYourTokenPairAddress",
       env |-> [dex |-> [kind |-> "json", status |-> 200, body |-> ProbeSnapshot],
                audit |-> [kind |-> "json",
                           body |-> [auditStatus |-> "GOOD", auditScore |-> 50]],
                balance |-> [kind |-> "json", body |-> [available |-> [number |-> 1]]],
                post |-> [kind |-> "http", status_code |-> 201, text |-> "created",
                          json |-> Ret(Confirmation)]],
       data |-> None],
      [entry |-> "analyze_and_trade", pair_address |-> "0xYourTokenPairAddress",
       env |-> [dex |-> [kind |-> "transport_error"], audit |-> Unused,
                balance |-> Unused, post |-> Unused],
       data |-> None],
      [entry |-> "_security_analysis", pair_address |-> "",
       env |-> [dex |-> Unused,
                audit |-> [kind |-> "json",
                           body |-> [auditStatus |-> "BAD", auditScore |-> 90]],
                balance |-> Unused, post |-> Unused],
       data |-> ProbeSnapshot],
      [entry |-> "_security_analysis", pair_address |-> "",
       env |-> [dex |-> Unused,
                audit |-> [kind |-> "json", body |-> [auditStatus |-> "GOOD"]],
                balance |-> Unused, post |-> Unused],
       data |-> [pairAddress |-> <<"a", "b">>,
                 baseToken |-> [address |-> TokenAddress],
                 quoteToken |-> [address |-> QuoteAddress], priceUsd |-> 1]],
      [entry |-> "_execute_gmgn_order", pair_address |-> "",
       env |-> [dex |-> Unused, audit |-> Unused,
                balance |-> [kind |-> "json", body |-> [available |-> [number |-> 1]]],
                post |-> [kind |-> "http", status_code |-> 201, text |-> "created",
                          json |-> Ret(Confirmation)]],
       data |-> ProbeSnapshot],
      [entry |-> "_execute_gmgn_order", pair_address |-> "",
       env |-> [dex |-> Unused, audit |-> Unused, balance |-> Unused,
                post |-> [kind |-> "http", status_code |-> 500, text |-> "rejected",
                          json |-> Exc("Expecting value")]],
       data |-> [pairAddress |-> <<"a", "b">>]] }

\* The inputs of the current call: the method, its pair identifier or (in a
\* direct call) the data passed, and what the services answer.
Inputs ==
    [entry |-> entry, pair_address |-> pair_address, env |-> env,
     data |-> IF entry = "analyze_and_trade" THEN None ELSE pair_data]

\* The invoked method has returned, as in Return; the call is remembered.
Remember ==
    /\ pc = "done"
    /\ prev = NoCall
    /\ Inputs \in Probes
    /\ prev' = [config |-> config, inputs |-> Inputs, result |-> result]
    /\ Reset
    /\ UNCHANGED <<config, account, threads>>

NextRuns == Next \/ Remember

SpecRuns == Init /\ [][NextRuns]_vars

\* C20: the configuration is the one that was loaded, and a call returns
\* what the remembered call with the same method, data and external responses
\* returned, whatever calls were made before either.
C20_NoRetainedState ==
    prev # NoCall =>
        /\ config = prev.config
        /\ (Done /\ Inputs = prev.inputs) => result = prev.result

\* A later call with the inputs of the remembered one has returned.
C20_Witness ==
    /\ prev # NoCall
    /\ AnalyzeRun /\ Done
    /\ Inputs = prev.inputs
    /\ result = prev.result
    /\ result = Ret(Error(KeyError("approved")))

====
